---- MODULE Spec2Model ----
(***************************************************************************)
(* Model of the audit_collector server: the Reconfiguration Supervisor     *)
(* (start_collector / update_config in src/main.rs), the platform Audit    *)
(* Sources with their capture threads (src/source/*.rs), the Collector     *)
(* loop (src/collector.rs), the relay thread and the tokio broadcast sink  *)
(* with its SSE subscribers (src/main.rs).                                 *)
(***************************************************************************)
EXTENDS Integers, Sequences, FiniteSets, TLC

\* Total number of lines / native events the OS mechanisms emit in one run.
MaxLines == 3

\* Retention of the broadcast sink, broadcast::channel(100) scaled down.
Capacity == 2

\* The request handlers that run update_config, next to the startup thread.
Handlers == {"h1", "h2"}

Threads == {"main"} \cup Handlers

\* FilterConfig values: 0 is FilterConfig::default(), the others are payloads.
DefaultConfig == 0

Payloads == {1, 2}

\* The cfg(target_os) alternatives of start_collector.
Platforms == {"linux", "macos", "windows", "other"}

ProcessBacked == {"linux", "macos"}

\* SSE clients.
Subs == {"u1", "u2"}

\* Kinds of stdout line a subprocess can print.
LineKinds == {"data", "blank", "[", ","}

VARIABLES
    platform,   \* target_os the binary was built for
    filter,     \* AppState.filter
    source_arc, \* AppState.source_arc: 0 is None, else the source id
    arc_lock,   \* holder of the source_arc write guard, or "none"
    pc,         \* position of each thread in start_collector / update_config
    config,     \* start_collector's local `config`
    source,     \* start_collector's local `source` (0: not constructed)
    resp,       \* what update_config answered
    sources,    \* every source constructed so far, by id
    nlines,     \* lines emitted so far by the OS mechanisms
    handoff,    \* per source with a Collector: the crossbeam hand-off queue
    published,  \* every event a relay passed to tx_broadcast.send, in order
    ring,       \* the broadcast sink's slots
    tail,       \* the broadcast sink's next write position
    subs,       \* the SSE subscribers
    run,        \* per Collector: "running", or how Collector::run returned
    rx,         \* per hand-off queue: its receiving side still exists
    raw,        \* the raw record receive() returned to a Collector
    iter,       \* how far that Collector's loop iteration on `raw` has come
    out,        \* what that iteration sent to the forwarding sink
    cmd,        \* the command line a capture thread built for its subprocess
    filter_lock, \* AppState.filter's RwLock: its writer and its readers
    queue_lock, \* per source: holder of its queue Mutex, or "none"
    pid_lock    \* per source: holder of its child_pid Mutex, or "none"

supVars == <<platform, filter, source_arc, arc_lock, pc, config, source, resp>>
srcVars == <<sources, nlines>>
pipeVars == <<handoff, published>>
subVars == <<ring, tail, subs>>
colVars == <<run, rx>>
parseVars == <<raw, iter, out>>
macVars == <<cmd>>
lockVars == <<filter_lock, queue_lock, pid_lock>>
vars == <<supVars, srcVars, pipeVars, subVars, colVars, parseVars,
          macVars, lockVars>>

SrcIds == 1..Len(sources)

NoEvent == [src |-> 0, n |-> 0]

\* No record under inspection: the empty byte vector.
NoRaw == <<>>

\* No command line built.
NoCommand == <<>>

\* An RwLock nobody holds.
Unlocked == [w |-> "none", r |-> {}]

----------------------------------------------------------------------------
(* Audit Sources *)

\* LinuxAuditSource::new / MacLogSource::new / WindowsEventSource::new: the
\* value they return (always Ok) and the state of the thread they spawn.
NewSource(c) ==
    [ cfg         |-> c,
      queue       |-> <<>>,
      child_pid   |-> FALSE,
      stop_signal |-> FALSE,
      cap         |-> IF platform = "windows" THEN "subscribe" ELSE "spawn",
      proc        |-> "none",
      stopCalled  |-> FALSE,
      emitted     |-> 0 ]

\* StopSource with a stop signal that every call flips.
StopSourceToggling(s) ==
    IF platform = "windows"
    THEN [s EXCEPT !.stop_signal = ~@, !.stopCalled = TRUE]
    ELSE IF s.child_pid
         THEN [s EXCEPT !.proc = IF @ = "running" THEN "dead" ELSE @,
                        !.stopCalled = TRUE]
         ELSE [s EXCEPT !.stopCalled = TRUE]

\* AuditSource::stop on the variant the platform selects. The synthetic
\* source has the trait's default stop, which does nothing: it never has a
\* pid. `kill` on a pid whose process is gone changes nothing (the child is
\* never waited for, so its pid is not given to another process).
StopSource(s) ==
    IF platform = "windows"
    THEN [s EXCEPT !.stop_signal = TRUE, !.stopCalled = TRUE]
    ELSE IF s.child_pid
         THEN [s EXCEPT !.proc = IF @ = "running" THEN "dead" ELSE @,
                        !.stopCalled = TRUE]
         ELSE [s EXCEPT !.stopCalled = TRUE]

\* cmd.spawn() succeeded in the capture thread.
SpawnOk(i) ==
    /\ platform \in ProcessBacked
    /\ sources[i].cap = "spawn"
    /\ sources' = [sources EXCEPT ![i].cap = "setpid", ![i].proc = "running"]
    /\ UNCHANGED <<nlines, supVars, pipeVars, subVars, colVars, parseVars,
                   macVars, lockVars>>

\* cmd.spawn() failed: .expect() panics the capture thread.
SpawnFail(i) ==
    /\ platform \in ProcessBacked
    /\ sources[i].cap = "spawn"
    /\ sources' = [sources EXCEPT ![i].cap = "panicked"]
    /\ UNCHANGED <<nlines, supVars, pipeVars, subVars, colVars, parseVars,
                   macVars, lockVars>>

\* *pid_lock = Some(child.id())
SetPid(i) ==
    /\ sources[i].cap = "setpid"
    /\ sources' = [sources EXCEPT ![i].cap = "read", ![i].child_pid = TRUE]
    /\ UNCHANGED <<nlines, supVars, pipeVars, subVars, colVars, parseVars,
                   macVars, lockVars>>

\* What the capture thread queues for one trimmed stdout line: <<>> when the
\* line is skipped, else the one raw record (len 0: an empty byte vector).
Captured(i, kind) ==
    LET rec(l) == <<[src |-> i, n |-> sources[i].emitted + 1, len |-> l]>>
    IN  IF kind = "blank" THEN <<>>
        ELSE IF platform = "macos"
             THEN IF kind = "[" THEN <<>>
                  ELSE IF kind = "," THEN rec(0)
                  ELSE rec(1)
             ELSE rec(1)

\* One iteration of `for line in reader.lines()`.
CaptureLine(i, kind) ==
    /\ platform \in ProcessBacked
    /\ sources[i].cap = "read"
    /\ sources[i].proc = "running"
    /\ nlines < MaxLines
    /\ nlines' = nlines + 1
    /\ sources' = [sources EXCEPT ![i].queue = @ \o Captured(i, kind),
                                  ![i].emitted = @ + 1]
    /\ UNCHANGED <<supVars, pipeVars, subVars, colVars, parseVars,
                   macVars, lockVars>>

\* The subprocess ends by itself (tail cannot read the file, log stream dies).
ProcExit(i) ==
    /\ platform \in ProcessBacked
    /\ sources[i].proc = "running"
    /\ sources' = [sources EXCEPT ![i].proc = "dead"]
    /\ UNCHANGED <<nlines, supVars, pipeVars, subVars, colVars, parseVars,
                   macVars, lockVars>>

\* End of the child's stdout: the loop ends and the pid is cleared.
CaptureEof(i) ==
    /\ platform \in ProcessBacked
    /\ sources[i].cap = "read"
    /\ sources[i].proc = "dead"
    /\ sources' = [sources EXCEPT ![i].cap = "exited", ![i].child_pid = FALSE]
    /\ UNCHANGED <<nlines, supVars, pipeVars, subVars, colVars, parseVars,
                   macVars, lockVars>>

\* EvtSubscribe returned a valid handle.
SubscribeOk(i) ==
    /\ platform = "windows"
    /\ sources[i].cap = "subscribe"
    /\ sources' = [sources EXCEPT ![i].cap = "check", ![i].proc = "running"]
    /\ UNCHANGED <<nlines, supVars, pipeVars, subVars, colVars, parseVars,
                   macVars, lockVars>>

\* subscription.is_invalid(): the thread reports on stderr and returns.
SubscribeFail(i) ==
    /\ platform = "windows"
    /\ sources[i].cap = "subscribe"
    /\ sources' = [sources EXCEPT ![i].cap = "unsubscribed"]
    /\ UNCHANGED <<nlines, supVars, pipeVars, subVars, colVars, parseVars,
                   macVars, lockVars>>

\* if *stop_clone.lock().unwrap() { break; } and the handles' release.
CheckStop(i) ==
    /\ platform = "windows"
    /\ sources[i].cap = "check"
    /\ sources' = IF sources[i].stop_signal
                  THEN [sources EXCEPT ![i].cap = "exited", ![i].proc = "dead"]
                  ELSE [sources EXCEPT ![i].cap = "wait"]
    /\ UNCHANGED <<nlines, supVars, pipeVars, subVars, colVars, parseVars,
                   macVars, lockVars>>

\* WaitForSingleObject timed out.
WaitTimeout(i) ==
    /\ platform = "windows"
    /\ sources[i].cap = "wait"
    /\ sources' = [sources EXCEPT ![i].cap = "check"]
    /\ UNCHANGED <<nlines, supVars, pipeVars, subVars, colVars, parseVars,
                   macVars, lockVars>>

\* WAIT_OBJECT_0: a rendered event is wrapped in the JSON envelope and queued.
WaitEvent(i) ==
    /\ platform = "windows"
    /\ sources[i].cap = "wait"
    /\ nlines < MaxLines
    /\ nlines' = nlines + 1
    /\ sources' = [sources EXCEPT
                     ![i].queue = Append(@, [src |-> i, n |-> sources[i].emitted + 1, len |-> 1]),
                     ![i].emitted = @ + 1,
                     ![i].cap = "check"]
    /\ UNCHANGED <<supVars, pipeVars, subVars, colVars, parseVars,
                   macVars, lockVars>>

----------------------------------------------------------------------------
(* Reconfiguration Supervisor *)

\* update_config up to the call of start_collector.
UpdateConfig(t, c) ==
    /\ t \in Handlers
    /\ pc["main"] \in {"done", "failed"}
    /\ pc[t] = "idle"
    /\ filter' = c
    /\ pc' = [pc EXCEPT ![t] = "take"]
    /\ UNCHANGED <<platform, source_arc, arc_lock, config, source, resp,
                   srcVars, pipeVars, subVars, colVars, parseVars,
                   macVars, lockVars>>

\* if let Some(src) = source_arc.write().take() { src.stop(); ... : the write
\* guard lives to the end of the if-let, so it is held through the sleep.
StopExisting(t) ==
    /\ pc[t] = "take"
    /\ arc_lock = "none"
    /\ source_arc # 0
    /\ arc_lock' = t
    /\ source_arc' = 0
    /\ sources' = [sources EXCEPT ![source_arc] = StopSource(@)]
    /\ pc' = [pc EXCEPT ![t] = "sleep"]
    /\ UNCHANGED <<platform, filter, config, source, resp, nlines,
                   pipeVars, subVars, colVars, parseVars, macVars, lockVars>>

\* The same statement when the slot holds None.
NoExisting(t) ==
    /\ pc[t] = "take"
    /\ arc_lock = "none"
    /\ source_arc = 0
    /\ pc' = [pc EXCEPT ![t] = "readcfg"]
    /\ UNCHANGED <<platform, filter, source_arc, arc_lock, config, source,
                   resp, srcVars, pipeVars, subVars, colVars, parseVars,
                   macVars, lockVars>>

\* thread::sleep(100ms) is over and the write guard is dropped.
GraceOver(t) ==
    /\ pc[t] = "sleep"
    /\ arc_lock' = "none"
    /\ pc' = [pc EXCEPT ![t] = "readcfg"]
    /\ UNCHANGED <<platform, filter, source_arc, config, source, resp,
                   srcVars, pipeVars, subVars, colVars, parseVars,
                   macVars, lockVars>>

\* let config = state.filter.read().unwrap().clone();
ReadConfig(t) ==
    /\ pc[t] = "readcfg"
    /\ config' = [config EXCEPT ![t] = filter]
    /\ pc' = [pc EXCEPT ![t] = "construct"]
    /\ UNCHANGED <<platform, filter, source_arc, arc_lock, source, resp,
                   srcVars, pipeVars, subVars, colVars, parseVars,
                   macVars, lockVars>>

\* source_result is Ok on the three supported platforms.
ConstructOk(t) ==
    /\ pc[t] = "construct"
    /\ platform # "other"
    /\ sources' = Append(sources, NewSource(config[t]))
    /\ source' = [source EXCEPT ![t] = Len(sources) + 1]
    /\ pc' = [pc EXCEPT ![t] = "record"]
    /\ UNCHANGED <<platform, filter, source_arc, arc_lock, config, resp,
                   nlines, pipeVars, subVars, colVars, parseVars,
                   macVars, lockVars>>

\* After start_collector returned: update_config answers.
Finish(t) ==
    IF t \in Handlers
    THEN resp' = [resp EXCEPT ![t] = "Config updated"]
    ELSE UNCHANGED resp

\* ConstructErr with the slot filled before the result is looked at.
ConstructErrRecorded(t) ==
    /\ pc[t] = "construct"
    /\ platform = "other"
    /\ pc' = [pc EXCEPT ![t] = "failed"]
    /\ Finish(t)
    /\ sources' = Append(sources, NewSource(config[t]))
    /\ source_arc' = Len(sources) + 1
    /\ UNCHANGED <<platform, filter, arc_lock, config, source,
                   nlines, pipeVars, subVars, colVars, parseVars,
                   macVars, lockVars>>

\* Err(e) => { eprintln!(...); return; } ("Unsupported OS").
ConstructErr(t) ==
    /\ pc[t] = "construct"
    /\ platform = "other"
    /\ pc' = [pc EXCEPT ![t] = "failed"]
    /\ Finish(t)
    /\ UNCHANGED <<platform, filter, source_arc, arc_lock, config, source,
                   srcVars, pipeVars, subVars, colVars, parseVars,
                   macVars, lockVars>>

\* *state.source_arc.write().unwrap() = Some(source.clone());
RecordSource(t) ==
    /\ pc[t] = "record"
    /\ arc_lock = "none"
    /\ source_arc' = source[t]
    /\ pc' = [pc EXCEPT ![t] = "spawn"]
    /\ UNCHANGED <<platform, filter, arc_lock, config, source, resp,
                   srcVars, pipeVars, subVars, colVars, parseVars,
                   macVars, lockVars>>

\* SpawnPipeline with a broadcast channel of its own for each new pipeline.
SpawnPipelineNewSink(t) ==
    /\ pc[t] = "spawn"
    /\ handoff' = handoff @@ (source[t] :> <<>>)
    /\ pc' = [pc EXCEPT ![t] = "done"]
    /\ Finish(t)
    /\ run' = run @@ (source[t] :> "running")
    /\ rx' = rx @@ (source[t] :> TRUE)
    /\ ring' = [k \in 0..(Capacity - 1) |-> [pos |-> -1, val |-> NoEvent]]
    /\ tail' = 0
    /\ subs' = [u \in Subs |-> IF subs[u].st = "attached"
                               THEN [subs[u] EXCEPT !.st = "ended"]
                               ELSE subs[u]]
    /\ UNCHANGED <<platform, filter, source_arc, arc_lock, config, source,
                   srcVars, published, parseVars, macVars, lockVars>>

\* unbounded(), Collector::new and the two thread::spawn calls: the relay
\* thread owns the receiving side and the Collector thread enters run().
SpawnPipeline(t) ==
    /\ pc[t] = "spawn"
    /\ handoff' = handoff @@ (source[t] :> <<>>)
    /\ pc' = [pc EXCEPT ![t] = "done"]
    /\ Finish(t)
    /\ run' = run @@ (source[t] :> "running")
    /\ rx' = rx @@ (source[t] :> TRUE)
    /\ UNCHANGED <<platform, filter, source_arc, arc_lock, config, source,
                   srcVars, published, subVars, parseVars, macVars, lockVars>>

----------------------------------------------------------------------------
(* Collector and relay *)

\* parse_event at the level of the pipeline: the event made from one record.
ParseEvent(r) == [src |-> r.src, n |-> r.n]

\* Forward leaving the loop on a zero-length record instead of skipping it.
ForwardBreakOnEmpty(i, r) ==
    IF r.len = 0
    THEN /\ run' = [run EXCEPT ![i] = "ok"]
         /\ UNCHANGED handoff
    ELSE IF rx[i]
         THEN /\ handoff' = [handoff EXCEPT ![i] = Append(@, ParseEvent(r))]
              /\ UNCHANGED run
         ELSE /\ run' = [run EXCEPT ![i] = "ok"]
              /\ UNCHANGED handoff

\* The body of Collector::run's loop for the record r that receive()
\* returned: a zero-length record is skipped (continue); else the parsed
\* event is sent, and a send that fails because the receiving side is gone
\* breaks the loop, after which run returns Ok(()).
Forward(i, r) ==
    IF r.len = 0
    THEN UNCHANGED <<handoff, run>>
    ELSE IF rx[i]
         THEN /\ handoff' = [handoff EXCEPT ![i] = Append(@, ParseEvent(r))]
              /\ UNCHANGED run
         ELSE /\ run' = [run EXCEPT ![i] = "ok"]
              /\ UNCHANGED handoff

\* Collect taking the newest record of the queue instead of the oldest.
CollectNewest(i) ==
    /\ i \in DOMAIN handoff
    /\ run[i] = "running"
    /\ sources[i].queue # <<>>
    /\ LET q == sources[i].queue
           r == q[Len(q)]
       IN  /\ sources' = [sources EXCEPT ![i].queue = SubSeq(q, 1, Len(q) - 1)]
           /\ Forward(i, r)
    /\ UNCHANGED <<nlines, published, rx, supVars, subVars, parseVars,
                   macVars, lockVars>>

\* Collect ending its loop once stop() was invoked on its source.
CollectUntilStopped(i) ==
    /\ i \in DOMAIN handoff
    /\ run[i] = "running"
    /\ ~sources[i].stopCalled
    /\ sources[i].queue # <<>>
    /\ LET r == Head(sources[i].queue)
       IN  /\ sources' = [sources EXCEPT ![i].queue = Tail(@)]
           /\ Forward(i, r)
    /\ UNCHANGED <<nlines, published, rx, supVars, subVars, parseVars,
                   macVars, lockVars>>

\* One iteration of Collector::run: receive(), the is_empty skip, parse, send.
Collect(i) ==
    /\ i \in DOMAIN handoff
    /\ run[i] = "running"
    /\ sources[i].queue # <<>>
    /\ LET r == Head(sources[i].queue)
       IN  /\ sources' = [sources EXCEPT ![i].queue = Tail(@)]
           /\ Forward(i, r)
    /\ UNCHANGED <<nlines, published, rx, supVars, subVars, parseVars,
                   macVars, lockVars>>

Attached == {u \in Subs : subs[u].st = "attached"}

\* Relay over a sink that waits until every receiver has room.
RelayWaitsForRoom(i) ==
    /\ i \in DOMAIN handoff
    /\ handoff[i] # <<>>
    /\ \A u \in Attached : tail - subs[u].next < Capacity
    /\ LET e == Head(handoff[i])
       IN  /\ handoff' = [handoff EXCEPT ![i] = Tail(@)]
           /\ published' = Append(published, e)
           /\ IF Attached = {}
              THEN UNCHANGED <<ring, tail>>
              ELSE /\ ring' = [ring EXCEPT ![tail % Capacity] = [pos |-> tail, val |-> e]]
                   /\ tail' = tail + 1
    /\ UNCHANGED <<subs, supVars, srcVars, colVars, parseVars,
                   macVars, lockVars>>

\* One iteration of the bridge loop: rx.recv() and tx_broadcast.send(event).
\* With no receiver the send is an error, which is ignored.
Relay(i) ==
    /\ i \in DOMAIN handoff
    /\ handoff[i] # <<>>
    /\ LET e == Head(handoff[i])
       IN  /\ handoff' = [handoff EXCEPT ![i] = Tail(@)]
           /\ published' = Append(published, e)
           /\ IF Attached = {}
              THEN UNCHANGED <<ring, tail>>
              ELSE /\ ring' = [ring EXCEPT ![tail % Capacity] = [pos |-> tail, val |-> e]]
                   /\ tail' = tail + 1
    /\ UNCHANGED <<subs, supVars, srcVars, colVars, parseVars,
                   macVars, lockVars>>

----------------------------------------------------------------------------
(* Subscribers *)

\* Subscribe starting at the oldest retained event instead of the tail.
SubscribeReplay(u) ==
    /\ pc["main"] \in {"done", "failed"}
    /\ subs[u].st = "none"
    /\ subs' = [subs EXCEPT ![u] = [st |-> "attached",
                                    next |-> IF tail > Capacity THEN tail - Capacity ELSE 0,
                                    got |-> <<>>, from |-> Len(published)]]
    /\ UNCHANGED <<ring, tail, supVars, srcVars, pipeVars,
                   colVars, parseVars, macVars, lockVars>>

\* sse_handler: state.tx_events.subscribe().
Subscribe(u) ==
    /\ pc["main"] \in {"done", "failed"}
    /\ subs[u].st = "none"
    /\ subs' = [subs EXCEPT ![u] = [st |-> "attached", next |-> tail,
                                    got |-> <<>>, from |-> Len(published)]]
    /\ UNCHANGED <<ring, tail, supVars, srcVars, pipeVars,
                   colVars, parseVars, macVars, lockVars>>

\* while let Ok(event) = rx.recv().await { yield ... }: a Lagged error ends
\* the loop, and with it the stream and the receiver.
Recv(u) ==
    /\ subs[u].st = "attached"
    /\ subs[u].next < tail
    /\ LET slot == ring[subs[u].next % Capacity]
       IN  subs' = IF slot.pos = subs[u].next
                   THEN [subs EXCEPT ![u].got = Append(@, slot.val),
                                     ![u].next = @ + 1]
                   ELSE [subs EXCEPT ![u].st = "ended"]
    /\ UNCHANGED <<ring, tail, supVars, srcVars, pipeVars,
                   colVars, parseVars, macVars, lockVars>>

\* The client closes the connection: the stream and its receiver are dropped.
Disconnect(u) ==
    /\ subs[u].st = "attached"
    /\ subs' = [subs EXCEPT ![u].st = "gone"]
    /\ UNCHANGED <<ring, tail, supVars, srcVars, pipeVars,
                   colVars, parseVars, macVars, lockVars>>

----------------------------------------------------------------------------
(* parse_event on the text of a record (src/collector.rs) *)

\* Longest record, in whitespace-separated tokens, that is parsed.
MaxToks == 3

\* Text is a sequence of characters, each a string of length one; a byte
\* that is not valid UTF-8 and the character U+FFFD have names of their own.
InvalidByte == "xFF"

ReplacementChar == "uFFFD"

Digit ==
    ("0" :> 0) @@ ("1" :> 1) @@ ("2" :> 2) @@ ("3" :> 3) @@ ("4" :> 4) @@
    ("5" :> 5) @@ ("6" :> 6) @@ ("7" :> 7) @@ ("8" :> 8) @@ ("9" :> 9)

\* char::is_digit(10)
is_digit(c) == c \in DOMAIN Digit

\* The literals of parse_event.
KeyType == <<"t", "y", "p", "e">>

KeyMsg == <<"m", "s", "g">>

TypeMarker == <<"t", "y", "p", "e", "=">>

AuditMarker == <<"m", "s", "g", "=", "a", "u", "d", "i", "t">>

KeyMessage == <<"m", "e", "s", "s", "a", "g", "e">>

KeyProcess == <<"p", "r", "o", "c", "e", "s", "s">>

KeyPid == <<"p", "i", "d">>

KeyThreadId == <<"t", "h", "r", "e", "a", "d", "_", "i", "d">>

KeySubsystem == <<"s", "u", "b", "s", "y", "s", "t", "e", "m">>

KeyCategory == <<"c", "a", "t", "e", "g", "o", "r", "y">>

KeyLibrary == <<"l", "i", "b", "r", "a", "r", "y">>

\* u16::MAX and u32::MAX in decimal.
U16Max == <<"6", "5", "5", "3", "5">>

U32Max == <<"4", "2", "9", "4", "9", "6", "7", "2", "9", "5">>

\* String::from_utf8_lossy: invalid bytes become U+FFFD.
from_utf8_lossy(b) ==
    [k \in DOMAIN b |-> IF b[k] = InvalidByte THEN ReplacementChar ELSE b[k]]

RECURSIVE trim_start(_)
trim_start(t) ==
    IF t # <<>> /\ t[1] = " " THEN trim_start(Tail(t)) ELSE t

RECURSIVE trim_end(_)
trim_end(t) ==
    IF t # <<>> /\ t[Len(t)] = " "
    THEN trim_end(SubSeq(t, 1, Len(t) - 1))
    ELSE t

\* str::trim
trim(t) == trim_end(trim_start(t))

\* str::starts_with(char)
starts_with(t, c) == t # <<>> /\ t[1] = c

\* str::contains(&str)
contains(t, pat) ==
    \E k \in 1..(Len(t) - Len(pat) + 1) : SubSeq(t, k, k + Len(pat) - 1) = pat

\* str::find(char): the first position of c in t, 0 standing for None.
find(t, c) ==
    IF \E k \in DOMAIN t : t[k] = c
    THEN CHOOSE k \in DOMAIN t : t[k] = c /\ \A j \in 1..(k - 1) : t[j] # c
    ELSE 0

\* str::split_whitespace: the maximal runs of non-whitespace, in order.
RECURSIVE split_whitespace(_)
split_whitespace(t) ==
    LET u == trim_start(t)
        n == IF find(u, " ") = 0 THEN Len(u) + 1 ELSE find(u, " ")
    IN  IF u = <<>>
        THEN <<>>
        ELSE <<SubSeq(u, 1, n - 1)>> \o split_whitespace(SubSeq(u, n, Len(u)))

\* str::split_once('='): <<>> for None, else <<k, v>> around the first '='.
split_once(t) ==
    LET e == find(t, "=")
    IN  IF e = 0 THEN <<>> ELSE <<SubSeq(t, 1, e - 1), SubSeq(t, e + 1, Len(t))>>

\* The number a string of decimal digits denotes.
RECURSIVE Decimal(_)
Decimal(d) ==
    IF d = <<>>
    THEN 0
    ELSE 10 * Decimal(SubSeq(d, 1, Len(d) - 1)) + Digit[d[Len(d)]]

RECURSIVE StripZeros(_)
StripZeros(d) ==
    IF d # <<>> /\ d[1] = "0" THEN StripZeros(Tail(d)) ELSE d

\* The digit string d denotes a number above the one max denotes.
Exceeds(d, max) ==
    LET s == StripZeros(d)
    IN  \/ Len(s) > Len(max)
        \/ /\ Len(s) = Len(max)
           /\ \E k \in DOMAIN s :
                /\ Digit[s[k]] > Digit[max[k]]
                /\ \A j \in 1..(k - 1) : s[j] = max[j]

\* str::parse::<uN>().unwrap_or(0) for the unsigned type whose MAX is max:
\* an optional '+', then one or more digits, and no overflow; else Err.
parse_or_0(t, max) ==
    LET d == IF starts_with(t, "+") THEN Tail(t) ELSE t
    IN  IF d = <<>> \/ (\E k \in DOMAIN d : ~is_digit(d[k])) \/ Exceeds(d, max)
        THEN 0
        ELSE Decimal(d)

\* u64::to_string
RECURSIVE to_string(_)
to_string(n) ==
    LET c == CHOOSE x \in DOMAIN Digit : Digit[x] = n % 10
    IN  IF n < 10 THEN <<c>> ELSE to_string(n \div 10) \o <<c>>

\* HashMap::new and HashMap::insert: an insert under a key already present
\* replaces the value.
EmptyMap == [k \in {} |-> <<>>]

\* insert keeping the value a key already has.
insert_if_absent(f, k, v) ==
    [x \in DOMAIN f \cup {k} |-> IF x \in DOMAIN f THEN f[x] ELSE v]

insert(f, k, v) == [x \in DOMAIN f \cup {k} |-> IF x = k THEN v ELSE f[x]]

\* MacLogEntry, by the fields parse_event reads: <<>> is None, <<v>> is
\* Some(v).
\* The names of these fields in the JSON text.
JEventMessage ==
    <<"e", "v", "e", "n", "t", "M", "e", "s", "s", "a", "g", "e">>

JProcessImagePath ==
    <<"p", "r", "o", "c", "e", "s", "s", "I", "m", "a", "g", "e", "P", "a",
      "t", "h">>

JProcessID == <<"p", "r", "o", "c", "e", "s", "s", "I", "D">>

JThreadID == <<"t", "h", "r", "e", "a", "d", "I", "D">>

JSubsystem == <<"s", "u", "b", "s", "y", "s", "t", "e", "m">>

JCategory == <<"c", "a", "t", "e", "g", "o", "r", "y">>

\* Tokens of the records parsed here.
TokType == <<"t", "y", "p", "e", "=", "1", "3">>

TokTypeWide == <<"t", "y", "p", "e", "=", "7", "0", "0", "0", "0">>

TokTypeMixed == <<"t", "y", "p", "e", "=", "a", "7">>

TokTypeWord == <<"t", "y", "p", "e", "=", "x">>

TokMsg ==
    <<"m", "s", "g", "=", "a", "u", "d", "i", "t", "(", "1", ":", "1", "0",
      "0", ")">>

TokMsgLater == <<"m", "s", "g", "=", "a", ":", "7", ")">>

TokMsgQuoted == <<"m", "s", "g", "=", "'", "o", "p", "=", "P", ":", "a">>

TokMsgWide ==
    <<"m", "s", "g", "=", "a", "u", "d", "i", "t", "(", "1", ":", "4", "2",
      "9", "4", "9", "6", "7", "2", "9", "6", ")">>

TokMsgBad ==
    <<"m", "s", "g", "=", "a", "u", "d", "i", "t", "(", "1", ":", "x", ")">>

TokPid == <<"p", "i", "d", "=", "1", "2", "3">>

TokWord == <<"h", "e", "l", "l", "o">>

TokBrace == <<"{", "x">>

TokInvalid == <<"h", InvalidByte>>

Tokens ==
    {TokType, TokTypeWide, TokTypeMixed, TokTypeWord, TokMsg, TokMsgLater,
     TokMsgQuoted, TokMsgWide, TokMsgBad, TokPid, TokWord, TokBrace,
     TokInvalid}

\* The pieces of ps with sep between them.
RECURSIVE JoinWith(_, _)
JoinWith(ps, sep) ==
    IF ps = <<>> THEN <<>>
    ELSE IF Len(ps) = 1 THEN ps[1]
    ELSE ps[1] \o sep \o JoinWith(Tail(ps), sep)

\* An eventMessage that itself reads like a legacy audit line.
LegacyLine == JoinWith(<<TokType, TokMsg>>, <<" ">>)

Entries ==
    [ event_message      : {<<>>, << <<>> >>, <<LegacyLine>>},
      process_image_path : {<<>>, <<TokWord>>},
      process_id         : {<<>>, <<7>>},
      thread_id          : {<<>>, <<12>>},
      subsystem          : {<<>>, <<KeySubsystem>>},
      category           : {<<>>, <<KeyCategory>>} ]

\* The JSON object that carries the entry e, as `log stream --style json`
\* names its members; an absent member is left out.
Json(e) ==
    LET str(v) == <<"\"">> \o v \o <<"\"">>
        member(name, o, val) ==
            IF o = <<>> THEN <<>> ELSE <<str(name) \o <<":">> \o val>>
    IN  <<"{">>
        \o JoinWith(
             member(JEventMessage, e.event_message, str(e.event_message[1]))
             \o member(JProcessImagePath, e.process_image_path,
                       str(e.process_image_path[1]))
             \o member(JProcessID, e.process_id, to_string(e.process_id[1]))
             \o member(JThreadID, e.thread_id, to_string(e.thread_id[1]))
             \o member(JSubsystem, e.subsystem, str(e.subsystem[1]))
             \o member(JCategory, e.category, str(e.category[1])),
             <<",">>)
        \o <<"}">>

JsonOf == [e \in Entries |-> Json(e)]

\* serde_json::from_str::<MacLogEntry>(&s): <<e>> for Ok(e), <<>> for Err.
\* Whitespace around the object is accepted.
from_str(s) ==
    LET m == {e \in Entries : JsonOf[e] = trim(s)}
    IN  IF m = {} THEN <<>> ELSE <<CHOOSE e \in m : TRUE>>

\* The records handed to parse_event: up to MaxToks tokens separated by one
\* space, or a JSON object, each also with a space in front.
Texts ==
    UNION {{JoinWith(f, <<" ">>) : f \in [1..n -> Tokens]} : n \in 0..MaxToks}
    \cup {JsonOf[e] : e \in Entries}

Raws == Texts \cup {<<" ">> \o t : t \in Texts}

\* structured_fields with an empty string under the key of an absent field.
structured_fields_defaulting(e) ==
    LET val(o) == IF o = <<>> THEN <<>> ELSE o[1]
        num(o) == IF o = <<>> THEN <<>> ELSE to_string(o[1])
    IN  [k \in {KeyMessage, KeyProcess, KeyPid, KeyThreadId, KeySubsystem,
                KeyCategory, KeyLibrary} |->
            IF k = KeyMessage THEN val(e.event_message)
            ELSE IF k = KeyPid THEN num(e.process_id)
            ELSE IF k = KeyThreadId THEN num(e.thread_id)
            ELSE IF k = KeySubsystem THEN val(e.subsystem)
            ELSE IF k = KeyCategory THEN val(e.category)
            ELSE val(e.process_image_path)]

\* The inserts of the structured branch, in the order of the code.
structured_fields(e) ==
    LET put(f, k, o, v) == IF o = <<>> THEN f ELSE insert(f, k, v)
        f1 == put(EmptyMap, KeyMessage, e.event_message, e.event_message[1])
        f2 == put(f1, KeyProcess, e.process_image_path, e.process_image_path[1])
        f3 == put(f2, KeyPid, e.process_id, to_string(e.process_id[1]))
        f4 == put(f3, KeyThreadId, e.thread_id, to_string(e.thread_id[1]))
        f5 == put(f4, KeySubsystem, e.subsystem, e.subsystem[1])
        f6 == put(f5, KeyCategory, e.category, e.category[1])
    IN  put(f6, KeyLibrary, e.process_image_path, e.process_image_path[1])

\* type_of keeping the low 16 bits of a number that does not fit.
type_of_wrapping(v) == Decimal(SelectSeq(v, is_digit)) % 65536

\* type_id for the value of a `type` token: its digits, parsed as u16.
type_of(v) == parse_or_0(SelectSeq(v, is_digit), U16Max)

\* serial after a `msg` token with value v, old being serial before it.
serial_of(v, old) ==
    LET start == find(v, ":")
        end == find(v, ")")
    IN  IF start # 0 /\ end # 0 /\ start < end
        THEN parse_or_0(SubSeq(v, start + 1, end - 1), U32Max)
        ELSE old

\* The body of `for part in s.split_whitespace()`.
legacy_part(part, acc) ==
    LET kv == split_once(part)
    IN  IF kv = <<>>
        THEN acc
        ELSE [ type_id |-> IF kv[1] = KeyType THEN type_of(kv[2]) ELSE acc.type_id,
               serial  |-> IF kv[1] = KeyMsg
                           THEN serial_of(kv[2], acc.serial)
                           ELSE acc.serial,
               fields  |-> insert(acc.fields, kv[1], kv[2]) ]

RECURSIVE legacy(_, _)
legacy(parts, acc) ==
    IF parts = <<>>
    THEN acc
    ELSE legacy(Tail(parts), legacy_part(Head(parts), acc))

\* generic keeping the text without the whitespace around it.
generic_trimmed(s) ==
    [type_id |-> 1, serial |-> 0,
     fields |-> insert(EmptyMap, KeyMessage, trim(s))]

\* The fallback for text that is neither JSON nor a legacy audit line.
generic(s) ==
    [type_id |-> 1, serial |-> 0, fields |-> insert(EmptyMap, KeyMessage, s)]

\* Collector::parse_event, without the timestamp. It returns Ok on every
\* path, so the result is the event.
parse_event(bytes) ==
    LET s == from_utf8_lossy(bytes)
        brace == starts_with(trim(s), "{")
        entry == IF brace THEN from_str(s) ELSE <<>>
        acc0 == [type_id |-> 0, serial |-> 0, fields |-> EmptyMap]
        acc == IF contains(s, TypeMarker) /\ contains(s, AuditMarker)
               THEN legacy(split_whitespace(s), acc0)
               ELSE IF ~brace THEN generic(s) ELSE acc0
    IN  IF entry # <<>>
        THEN [record_type |-> 1, sequence |-> 0,
              fields |-> structured_fields(entry[1])]
        ELSE [record_type |-> acc.type_id, sequence |-> acc.serial,
              fields |-> acc.fields]

\* if raw_data.is_empty() { continue; }
SkipEmpty ==
    /\ iter = "received"
    /\ raw = <<>>
    /\ iter' = "skipped"
    /\ UNCHANGED <<raw, out, supVars, srcVars, pipeVars, subVars, colVars,
                   macVars, lockVars>>

\* if let Ok(event) = self.parse_event(&raw_data) { self.sender.send(event) }
ParseAndSend ==
    /\ iter = "received"
    /\ raw # <<>>
    /\ iter' = "sent"
    /\ out' = <<parse_event(raw)>>
    /\ UNCHANGED <<raw, supVars, srcVars, pipeVars, subVars, colVars,
                   macVars, lockVars>>

----------------------------------------------------------------------------
(* MacLogSource::new: the predicate of /usr/bin/log stream *)

\* Option<String>: None, and Some(s) for a text s.
None == <<>>

Some(s) == <<s>>

\* Texts a client puts in the fields of a Filter Configuration.
ProcessValue == <<"s", "h">>

MessageValue == <<"e", "r">>

SubsystemValue == <<"a", ".", "b">>

PidValue == <<"4", "2">>

ThreadIdValue == <<"7">>

CategoryValue == <<"n", "e", "t">>

LibraryValue == <<"/", "l">>

\* An optional field: absent, the empty text, or a text.
Opt(v) == {None, Some(<<>>), Some(v)}

\* The FilterConfig values a client can store.
FilterConfigs ==
    [ process   : Opt(ProcessValue),
      message   : Opt(MessageValue),
      subsystem : Opt(SubsystemValue),
      pid       : Opt(PidValue),
      thread_id : Opt(ThreadIdValue),
      category  : Opt(CategoryValue),
      library   : Opt(LibraryValue) ]

\* The literal parts of the format! strings, before and after the value.
FmtProcess == <<"p", "r", "o", "c", "e", "s", "s", " ", "=", "=", " ", "\"">>

FmtMessage ==
    <<"e", "v", "e", "n", "t", "M", "e", "s", "s", "a", "g", "e", " ", "c",
      "o", "n", "t", "a", "i", "n", "s", " ", "\"">>

FmtSubsystem ==
    <<"s", "u", "b", "s", "y", "s", "t", "e", "m", " ", "=", "=", " ", "\"">>

FmtPid == <<"p", "r", "o", "c", "e", "s", "s", "I", "D", " ", "=", "=", " ">>

FmtThreadId == <<"t", "h", "r", "e", "a", "d", "I", "D", " ", "=", "=", " ">>

FmtCategory ==
    <<"c", "a", "t", "e", "g", "o", "r", "y", " ", "=", "=", " ", "\"">>

FmtLibrary ==
    <<"p", "r", "o", "c", "e", "s", "s", "I", "m", "a", "g", "e", "P", "a",
      "t", "h", " ", "c", "o", "n", "t", "a", "i", "n", "s", " ", "\"">>

Quote == <<"\"">>

AndSep == <<" ", "A", "N", "D", " ">>

\* The program and its arguments.
LogTool == <<"/", "u", "s", "r", "/", "b", "i", "n", "/", "l", "o", "g">>

ArgStream == <<"s", "t", "r", "e", "a", "m">>

ArgStyle == <<"-", "-", "s", "t", "y", "l", "e">>

ArgJson == <<"j", "s", "o", "n">>

ArgPredicate == <<"-", "-", "p", "r", "e", "d", "i", "c", "a", "t", "e">>

\* push_if_set without the is_empty test.
push_if_some(ps, field, before, after) ==
    IF field # None
    THEN Append(ps, before \o field[1] \o after)
    ELSE ps

\* if let Some(v) = field { if !v.is_empty() { predicates.push(format!(..)) } }
push_if_set(ps, field, before, after) ==
    IF field # None /\ field[1] # <<>>
    THEN Append(ps, before \o field[1] \o after)
    ELSE ps

\* The predicates vector the capture thread builds from its config c.
predicates(c) ==
    LET p1 == push_if_set(<<>>, c.process, FmtProcess, Quote)
        p2 == push_if_set(p1, c.message, FmtMessage, Quote)
        p3 == push_if_set(p2, c.subsystem, FmtSubsystem, Quote)
        p4 == push_if_set(p3, c.pid, FmtPid, <<>>)
        p5 == push_if_set(p4, c.thread_id, FmtThreadId, <<>>)
        p6 == push_if_set(p5, c.category, FmtCategory, Quote)
    IN  push_if_set(p6, c.library, FmtLibrary, Quote)

\* predicate_arg: the empty text, or the predicates joined with " AND ".
predicate_arg(c) ==
    IF predicates(c) = <<>> THEN <<>>
    ELSE JoinWith(predicates(c), AndSep)

\* The command: log stream --style json, and --predicate with its argument
\* unless predicate_arg is empty.
command(c) ==
    [ program |-> LogTool,
      args    |-> <<ArgStream, ArgStyle, ArgJson>>
                  \o IF predicate_arg(c) # <<>>
                     THEN <<ArgPredicate, predicate_arg(c)>>
                     ELSE <<>> ]

\* The capture thread of source i has built its command.
BuildCommand(i) ==
    /\ platform = "macos"
    /\ sources[i].cap = "spawn"
    /\ i \notin DOMAIN cmd
    /\ cmd' = cmd @@ (i :> command(sources[i].cfg))
    /\ UNCHANGED <<supVars, srcVars, pipeVars, subVars, colVars, parseVars,
                   lockVars>>

\* cmd.spawn() on the command built, and its outcome.
MacSpawn(i) ==
    /\ i \in DOMAIN cmd
    /\ SpawnOk(i) \/ SpawnFail(i)

----------------------------------------------------------------------------
(* The Collector over the synthetic source, as in tests/integration_test.rs *)

\* Vec<Vec<u8>> arguments of MockAuditSource::new, each record by its length
\* (0: an empty vector).
MockData == UNION {[1..k -> {0, 1}] : k \in 0..MaxLines}

\* MockAuditSource::new(data): the queue holds the records in their order;
\* there is no thread, subprocess or subscription behind it.
MockSource(data) ==
    [ cfg         |-> DefaultConfig,
      queue       |-> [k \in 1..Len(data) |-> [src |-> 1, n |-> k, len |-> data[k]]],
      child_pid   |-> FALSE,
      stop_signal |-> FALSE,
      cap         |-> "none",
      proc        |-> "none",
      stopCalled  |-> FALSE,
      emitted     |-> Len(data) ]

\* Push putting the record in front of the queue.
PushFront(i, l) ==
    /\ platform = "mock"
    /\ nlines < MaxLines
    /\ nlines' = nlines + 1
    /\ sources' = [sources EXCEPT
                     ![i].queue = <<[src |-> i, n |-> sources[i].emitted + 1, len |-> l]>> \o @,
                     ![i].emitted = @ + 1]
    /\ UNCHANGED <<supVars, pipeVars, subVars, colVars, parseVars,
                   macVars, lockVars>>

\* MockAuditSource::push(data): push_back on the queue.
Push(i, l) ==
    /\ platform = "mock"
    /\ nlines < MaxLines
    /\ nlines' = nlines + 1
    /\ sources' = [sources EXCEPT
                     ![i].queue = Append(@, [src |-> i, n |-> sources[i].emitted + 1, len |-> l]),
                     ![i].emitted = @ + 1]
    /\ UNCHANGED <<supVars, pipeVars, subVars, colVars, parseVars,
                   macVars, lockVars>>

\* rx.recv_timeout(..) of the test body returns the oldest forwarded event.
HarnessRecv(i) ==
    /\ platform = "mock"
    /\ rx[i]
    /\ handoff[i] # <<>>
    /\ handoff' = [handoff EXCEPT ![i] = Tail(@)]
    /\ published' = Append(published, Head(handoff[i]))
    /\ UNCHANGED <<supVars, srcVars, subVars, colVars, parseVars,
                   macVars, lockVars>>

\* The Receiver is dropped (the test body ends): the channel is disconnected
\* and what it still held is discarded.
DropRx(i) ==
    /\ platform = "mock"
    /\ rx[i]
    /\ rx' = [rx EXCEPT ![i] = FALSE]
    /\ handoff' = [handoff EXCEPT ![i] = <<>>]
    /\ UNCHANGED <<published, run, supVars, srcVars, subVars, parseVars,
                   macVars, lockVars>>

\* A holder of the source calls source.stop(), up to twice, whenever it
\* pleases.
StopCall(t, i) ==
    /\ pc[t] \in {"stop0", "stop1"}
    /\ pc' = [pc EXCEPT ![t] = IF @ = "stop0" THEN "stop1" ELSE "stop2"]
    /\ sources' = [sources EXCEPT ![i] = StopSource(@)]
    /\ UNCHANGED <<platform, filter, source_arc, arc_lock, config, source,
                   resp, nlines, pipeVars, subVars, colVars, parseVars,
                   macVars, lockVars>>

----------------------------------------------------------------------------

\* The state after main built AppState and before it calls start_collector,
\* for a build for one of the platforms P that serves the requests of the
\* handlers H and of the SSE clients U.
InitFor(P, H, U) ==
    /\ platform \in P
    /\ filter = DefaultConfig
    /\ source_arc = 0
    /\ arc_lock = "none"
    /\ pc = [t \in Threads |-> IF t = "main" THEN "take"
                               ELSE IF t \in H THEN "idle" ELSE "off"]
    /\ config = [t \in Threads |-> DefaultConfig]
    /\ source = [t \in Threads |-> 0]
    /\ resp = [t \in Handlers |-> "none"]
    /\ sources = <<>>
    /\ nlines = 0
    /\ handoff = <<>>
    /\ published = <<>>
    /\ ring = [k \in 0..(Capacity - 1) |-> [pos |-> -1, val |-> NoEvent]]
    /\ tail = 0
    /\ subs = [u \in Subs |-> [st |-> IF u \in U THEN "none" ELSE "off",
                               next |-> 0, got |-> <<>>, from |-> 0]]
    /\ run = <<>>
    /\ rx = <<>>
    /\ raw = NoRaw
    /\ iter = "off"
    /\ out = <<>>
    /\ cmd = NoCommand
    /\ filter_lock = Unlocked
    /\ queue_lock = <<>>
    /\ pid_lock = <<>>

Init == InitFor(Platforms, Handlers, {})

\* The supervisor with its sources' start-up and shutdown, on every platform.
Next ==
    \/ \E t \in Handlers, c \in Payloads : UpdateConfig(t, c)
    \/ \E t \in Threads : StopExisting(t)
    \/ \E t \in Threads : NoExisting(t)
    \/ \E t \in Threads : GraceOver(t)
    \/ \E t \in Threads : ReadConfig(t)
    \/ \E t \in Threads : ConstructOk(t)
    \/ \E t \in Threads : ConstructErr(t)
    \/ \E t \in Threads : RecordSource(t)
    \/ \E t \in Threads : SpawnPipeline(t)
    \/ \E i \in SrcIds : SpawnOk(i)
    \/ \E i \in SrcIds : SpawnFail(i)
    \/ \E i \in SrcIds : SetPid(i)
    \/ \E i \in SrcIds : ProcExit(i)
    \/ \E i \in SrcIds : CaptureEof(i)
    \/ \E i \in SrcIds : SubscribeOk(i)
    \/ \E i \in SrcIds : SubscribeFail(i)
    \/ \E i \in SrcIds : CheckStop(i)
    \/ \E i \in SrcIds : WaitTimeout(i)

Spec == Init /\ [][Next]_vars

\* The whole pipeline, from the OS mechanism to the subscribers, with one
\* request handler.
PipeInit == InitFor(Platforms, {"h1"}, {"u1"})

PipeNext ==
    \/ \E t \in Handlers, c \in Payloads : UpdateConfig(t, c)
    \/ \E t \in Threads : StopExisting(t)
    \/ \E t \in Threads : NoExisting(t)
    \/ \E t \in Threads : GraceOver(t)
    \/ \E t \in Threads : ReadConfig(t)
    \/ \E t \in Threads : ConstructOk(t)
    \/ \E t \in Threads : ConstructErr(t)
    \/ \E t \in Threads : RecordSource(t)
    \/ \E t \in Threads : SpawnPipeline(t)
    \/ \E i \in SrcIds : SpawnOk(i)
    \/ \E i \in SrcIds : SpawnFail(i)
    \/ \E i \in SrcIds : SetPid(i)
    \/ \E i \in SrcIds, k \in LineKinds : CaptureLine(i, k)
    \/ \E i \in SrcIds : ProcExit(i)
    \/ \E i \in SrcIds : CaptureEof(i)
    \/ \E i \in SrcIds : SubscribeOk(i)
    \/ \E i \in SrcIds : SubscribeFail(i)
    \/ \E i \in SrcIds : CheckStop(i)
    \/ \E i \in SrcIds : WaitTimeout(i)
    \/ \E i \in SrcIds : WaitEvent(i)
    \/ \E i \in SrcIds : Collect(i)
    \/ \E i \in SrcIds : Relay(i)
    \/ \E u \in Subs : Subscribe(u)
    \/ \E u \in Subs : Recv(u)
    \/ \E u \in Subs : Disconnect(u)

PipeSpec == PipeInit /\ [][PipeNext]_vars

\* The fan-out alone: one source, never reconfigured, and two SSE clients.
FanInit == InitFor(ProcessBacked, {}, Subs)

FanNext ==
    \/ \E t \in Threads : NoExisting(t)
    \/ \E t \in Threads : ReadConfig(t)
    \/ \E t \in Threads : ConstructOk(t)
    \/ \E t \in Threads : RecordSource(t)
    \/ \E t \in Threads : SpawnPipeline(t)
    \/ \E i \in SrcIds : SpawnOk(i)
    \/ \E i \in SrcIds : SpawnFail(i)
    \/ \E i \in SrcIds : SetPid(i)
    \/ \E i \in SrcIds, k \in LineKinds : CaptureLine(i, k)
    \/ \E i \in SrcIds : ProcExit(i)
    \/ \E i \in SrcIds : CaptureEof(i)
    \/ \E i \in SrcIds : Collect(i)
    \/ \E i \in SrcIds : Relay(i)
    \/ \E u \in Subs : Subscribe(u)
    \/ \E u \in Subs : Recv(u)
    \/ \E u \in Subs : Disconnect(u)

FanSpec == FanInit /\ [][FanNext]_vars

\* Every thread constructs at most one source.
AllSrcIds == 1..Cardinality(Threads)

\* The Collector and relay threads are OS threads: each keeps being scheduled.
PipelineFairness ==
    \A i \in AllSrcIds : WF_vars(Collect(i)) /\ WF_vars(Relay(i))

\* The fan-out with its threads scheduled fairly; the SSE clients read when
\* they please.
FanLive == FanSpec /\ PipelineFairness

\* A Reconfigure over a running pipeline, on the tail-based source.
RecInit == InitFor({"linux"}, {"h1"}, {})

RecNext ==
    \/ \E t \in Handlers, c \in Payloads : UpdateConfig(t, c)
    \/ \E t \in Threads : StopExisting(t)
    \/ \E t \in Threads : NoExisting(t)
    \/ \E t \in Threads : GraceOver(t)
    \/ \E t \in Threads : ReadConfig(t)
    \/ \E t \in Threads : ConstructOk(t)
    \/ \E t \in Threads : RecordSource(t)
    \/ \E t \in Threads : SpawnPipeline(t)
    \/ \E i \in SrcIds : SpawnOk(i)
    \/ \E i \in SrcIds : SpawnFail(i)
    \/ \E i \in SrcIds : SetPid(i)
    \/ \E i \in SrcIds, k \in LineKinds : CaptureLine(i, k)
    \/ \E i \in SrcIds : ProcExit(i)
    \/ \E i \in SrcIds : CaptureEof(i)
    \/ \E i \in SrcIds : Collect(i)
    \/ \E i \in SrcIds : Relay(i)

RecLive == RecInit /\ [][RecNext]_vars /\ PipelineFairness

\* The Collector under the test harness: MockAuditSource::new(data),
\* unbounded(), Collector::new and the thread that calls run().
ColInit ==
    /\ platform = "mock"
    /\ filter = DefaultConfig
    /\ source_arc = 0
    /\ arc_lock = "none"
    /\ pc = [t \in Threads |-> "off"]
    /\ config = [t \in Threads |-> DefaultConfig]
    /\ source = [t \in Threads |-> 0]
    /\ resp = [t \in Handlers |-> "none"]
    /\ \E data \in MockData :
          /\ sources = <<MockSource(data)>>
          /\ nlines = Len(data)
    /\ handoff = << <<>> >>
    /\ published = <<>>
    /\ ring = [k \in 0..(Capacity - 1) |-> [pos |-> -1, val |-> NoEvent]]
    /\ tail = 0
    /\ subs = [u \in Subs |-> [st |-> "off", next |-> 0, got |-> <<>>, from |-> 0]]
    /\ run = <<"running">>
    /\ rx = <<TRUE>>
    /\ raw = NoRaw
    /\ iter = "off"
    /\ out = <<>>
    /\ cmd = NoCommand
    /\ filter_lock = Unlocked
    /\ queue_lock = <<>>
    /\ pid_lock = <<>>

ColNext ==
    \/ \E i \in SrcIds, l \in {0, 1} : Push(i, l)
    \/ \E i \in SrcIds : Collect(i)
    \/ \E i \in SrcIds : HarnessRecv(i)
    \/ \E i \in SrcIds : DropRx(i)

ColSpec == ColInit /\ [][ColNext]_vars

\* The Collector thread is an OS thread: it keeps being scheduled.
ColLive == ColSpec /\ \A i \in AllSrcIds : WF_vars(Collect(i))

\* One iteration of Collector::run on a record that receive() returned.
ParseInit ==
    /\ platform = "mock"
    /\ filter = DefaultConfig
    /\ source_arc = 0
    /\ arc_lock = "none"
    /\ pc = [t \in Threads |-> "off"]
    /\ config = [t \in Threads |-> DefaultConfig]
    /\ source = [t \in Threads |-> 0]
    /\ resp = [t \in Handlers |-> "none"]
    /\ sources = <<>>
    /\ nlines = 0
    /\ handoff = <<>>
    /\ published = <<>>
    /\ ring = [k \in 0..(Capacity - 1) |-> [pos |-> -1, val |-> NoEvent]]
    /\ tail = 0
    /\ subs = [u \in Subs |-> [st |-> "off", next |-> 0, got |-> <<>>, from |-> 0]]
    /\ run = <<>>
    /\ rx = <<>>
    /\ raw \in Raws
    /\ iter = "received"
    /\ out = <<>>
    /\ cmd = NoCommand
    /\ filter_lock = Unlocked
    /\ queue_lock = <<>>
    /\ pid_lock = <<>>

ParseNext == SkipEmpty \/ ParseAndSend

ParseSpec == ParseInit /\ [][ParseNext]_vars

\* One source of any variant, from its construction on, with its capture
\* thread and a holder that calls stop() on it.
StopInit ==
    /\ platform \in {"linux", "macos", "windows", "mock"}
    /\ filter = DefaultConfig
    /\ source_arc = 0
    /\ arc_lock = "none"
    /\ pc = [t \in Threads |-> IF t = "main" THEN "stop0" ELSE "off"]
    /\ config = [t \in Threads |-> DefaultConfig]
    /\ source = [t \in Threads |-> 0]
    /\ resp = [t \in Handlers |-> "none"]
    /\ \E data \in MockData :
          /\ nlines = Len(data)
          /\ IF platform = "mock"
             THEN sources = <<MockSource(data)>>
             ELSE data = <<>> /\ sources = <<NewSource(DefaultConfig)>>
    /\ handoff = <<>>
    /\ published = <<>>
    /\ ring = [k \in 0..(Capacity - 1) |-> [pos |-> -1, val |-> NoEvent]]
    /\ tail = 0
    /\ subs = [u \in Subs |-> [st |-> "off", next |-> 0, got |-> <<>>, from |-> 0]]
    /\ run = <<>>
    /\ rx = <<>>
    /\ raw = NoRaw
    /\ iter = "off"
    /\ out = <<>>
    /\ cmd = NoCommand
    /\ filter_lock = Unlocked
    /\ queue_lock = <<>>
    /\ pid_lock = <<>>

StopNext ==
    \/ \E i \in SrcIds : SpawnOk(i)
    \/ \E i \in SrcIds : SpawnFail(i)
    \/ \E i \in SrcIds : SetPid(i)
    \/ \E i \in SrcIds, k \in LineKinds : CaptureLine(i, k)
    \/ \E i \in SrcIds : ProcExit(i)
    \/ \E i \in SrcIds : CaptureEof(i)
    \/ \E i \in SrcIds : SubscribeOk(i)
    \/ \E i \in SrcIds : SubscribeFail(i)
    \/ \E i \in SrcIds : CheckStop(i)
    \/ \E i \in SrcIds : WaitTimeout(i)
    \/ \E i \in SrcIds : WaitEvent(i)
    \/ \E i \in SrcIds, l \in {0, 1} : Push(i, l)
    \/ \E t \in Threads, i \in SrcIds : StopCall(t, i)

StopSpec == StopInit /\ [][StopNext]_vars

\* The capture thread is an OS thread: it keeps being scheduled, so it gets
\* the outcome of cmd.spawn(), records the pid and sees the end of the
\* child's stdout. What the subprocess prints, and whether it ends by
\* itself, is up to the operating system.
CaptureFairness ==
    \A i \in AllSrcIds :
        /\ WF_vars(i \in SrcIds /\ (SpawnOk(i) \/ SpawnFail(i)))
        /\ WF_vars(i \in SrcIds /\ SetPid(i))
        /\ WF_vars(i \in SrcIds /\ CaptureEof(i))

StopLive == StopSpec /\ CaptureFairness

----------------------------------------------------------------------------
(* The locks: AppState.filter, AppState.source_arc, and each source's queue
   and child_pid. Every lock() / read() / write() is a step that waits for
   the lock, and the end of the guard's scope is a step that releases it;
   of the data only what decides a thread's way is kept. *)

\* The thread that serves GET /api/config.
Reader == "get"

\* The capture thread and the Collector thread of a source, as lock holders.
Cap == "cap"

Col == "col"

\* update_config: state.filter.write() and the store of the payload.
WriteFilter(t, c) ==
    /\ t \in Handlers
    /\ pc["main"] \in {"done", "failed"}
    /\ pc[t] = "idle"
    /\ filter_lock = Unlocked
    /\ filter_lock' = [filter_lock EXCEPT !.w = t]
    /\ filter' = c
    /\ pc' = [pc EXCEPT ![t] = "stored"]
    /\ UNCHANGED <<platform, source_arc, arc_lock, config, source, resp,
                   srcVars, pipeVars, subVars, colVars, parseVars, macVars,
                   queue_lock, pid_lock>>

\* The write guard is dropped at the end of that statement.
WriteFilterRelease(t) ==
    /\ pc[t] = "stored"
    /\ filter_lock' = [filter_lock EXCEPT !.w = "none"]
    /\ pc' = [pc EXCEPT ![t] = "take"]
    /\ UNCHANGED <<platform, filter, source_arc, arc_lock, config, source,
                   resp, srcVars, pipeVars, subVars, colVars, parseVars,
                   macVars, queue_lock, pid_lock>>

\* start_collector: state.source_arc.write() of the take statement. What
\* take() leaves in the slot shows when the guard is released.
TakeLock(t) ==
    /\ pc[t] = "take"
    /\ arc_lock = "none"
    /\ arc_lock' = t
    /\ pc' = [pc EXCEPT ![t] = "taken"]
    /\ UNCHANGED <<platform, filter, source_arc, config, source, resp,
                   srcVars, pipeVars, subVars, colVars, parseVars, macVars,
                   lockVars>>

\* The slot held None: the statement ends and the guard is dropped.
TakeNoneRelease(t) ==
    /\ pc[t] = "taken"
    /\ source_arc = 0
    /\ arc_lock' = "none"
    /\ pc' = [pc EXCEPT ![t] = "readcfg"]
    /\ UNCHANGED <<platform, filter, source_arc, config, source, resp,
                   srcVars, pipeVars, subVars, colVars, parseVars, macVars,
                   lockVars>>

\* old.stop(): self.child_pid.lock(), under the source_arc write guard.
StopLock(t) ==
    /\ pc[t] = "taken"
    /\ source_arc # 0
    /\ pid_lock[source_arc] = "none"
    /\ pid_lock' = [pid_lock EXCEPT ![source_arc] = t]
    /\ pc' = [pc EXCEPT ![t] = "kill"]
    /\ UNCHANGED <<platform, filter, source_arc, arc_lock, config, source,
                   resp, srcVars, pipeVars, subVars, colVars, parseVars,
                   macVars, filter_lock, queue_lock>>

\* StopRelease that first waits for the capture thread to end.
StopJoinRelease(t) ==
    /\ pc[t] = "kill"
    /\ sources[source_arc].cap \in {"exited", "panicked"}
    /\ sources' = [sources EXCEPT ![source_arc] = StopSource(@)]
    /\ pid_lock' = [pid_lock EXCEPT ![source_arc] = "none"]
    /\ pc' = [pc EXCEPT ![t] = "sleep"]
    /\ UNCHANGED <<platform, filter, source_arc, arc_lock, config, source,
                   resp, nlines, pipeVars, subVars, colVars, parseVars,
                   macVars, filter_lock, queue_lock>>

\* stop() runs `kill <pid>` if a pid is recorded and returns: the child_pid
\* guard is dropped.
StopRelease(t) ==
    /\ pc[t] = "kill"
    /\ sources' = [sources EXCEPT ![source_arc] = StopSource(@)]
    /\ pid_lock' = [pid_lock EXCEPT ![source_arc] = "none"]
    /\ pc' = [pc EXCEPT ![t] = "sleep"]
    /\ UNCHANGED <<platform, filter, source_arc, arc_lock, config, source,
                   resp, nlines, pipeVars, subVars, colVars, parseVars,
                   macVars, filter_lock, queue_lock>>

\* After the 500 ms sleep the if-let ends: the source_arc guard is dropped,
\* the slot holds None.
GraceRelease(t) ==
    /\ pc[t] = "sleep"
    /\ source_arc' = 0
    /\ arc_lock' = "none"
    /\ pc' = [pc EXCEPT ![t] = "readcfg"]
    /\ UNCHANGED <<platform, filter, config, source, resp, srcVars,
                   pipeVars, subVars, colVars, parseVars, macVars, lockVars>>

\* state.filter.read() of start_collector, and the clone.
ReadFilter(t) ==
    /\ pc[t] = "readcfg"
    /\ filter_lock.w = "none"
    /\ filter_lock' = [filter_lock EXCEPT !.r = @ \cup {t}]
    /\ config' = [config EXCEPT ![t] = filter]
    /\ pc' = [pc EXCEPT ![t] = "cloned"]
    /\ UNCHANGED <<platform, filter, source_arc, arc_lock, source, resp,
                   srcVars, pipeVars, subVars, colVars, parseVars, macVars,
                   queue_lock, pid_lock>>

\* The read guard is dropped at the end of that statement.
ReadFilterRelease(t) ==
    /\ pc[t] = "cloned"
    /\ filter_lock' = [filter_lock EXCEPT !.r = @ \ {t}]
    /\ pc' = [pc EXCEPT ![t] = "construct"]
    /\ UNCHANGED <<platform, filter, source_arc, arc_lock, config, source,
                   resp, srcVars, pipeVars, subVars, colVars, parseVars,
                   macVars, queue_lock, pid_lock>>

\* The platform constructor returns a source with its two fresh Mutexes.
ConstructLocks(t) ==
    /\ pc[t] = "construct"
    /\ platform # "other"
    /\ sources' = Append(sources, NewSource(config[t]))
    /\ source' = [source EXCEPT ![t] = Len(sources) + 1]
    /\ queue_lock' = Append(queue_lock, "none")
    /\ pid_lock' = Append(pid_lock, "none")
    /\ pc' = [pc EXCEPT ![t] = "record"]
    /\ UNCHANGED <<platform, filter, source_arc, arc_lock, config, resp,
                   nlines, pipeVars, subVars, colVars, parseVars, macVars,
                   filter_lock>>

\* state.source_arc.write() of the store statement, and the store.
RecordLock(t) ==
    /\ pc[t] = "record"
    /\ arc_lock = "none"
    /\ arc_lock' = t
    /\ source_arc' = source[t]
    /\ pc' = [pc EXCEPT ![t] = "recorded"]
    /\ UNCHANGED <<platform, filter, config, source, resp, srcVars,
                   pipeVars, subVars, colVars, parseVars, macVars, lockVars>>

\* The write guard is dropped at the end of that statement.
RecordRelease(t) ==
    /\ pc[t] = "recorded"
    /\ arc_lock' = "none"
    /\ pc' = [pc EXCEPT ![t] = "spawn"]
    /\ UNCHANGED <<platform, filter, source_arc, config, source, resp,
                   srcVars, pipeVars, subVars, colVars, parseVars, macVars,
                   lockVars>>

\* get_config: state.filter.read() and the clone.
GetConfig ==
    /\ filter_lock.w = "none"
    /\ Reader \notin filter_lock.r
    /\ filter_lock' = [filter_lock EXCEPT !.r = @ \cup {Reader}]
    /\ UNCHANGED <<supVars, srcVars, pipeVars, subVars, colVars, parseVars,
                   macVars, queue_lock, pid_lock>>

\* The read guard is dropped at the end of that statement.
GetConfigRelease ==
    /\ Reader \in filter_lock.r
    /\ filter_lock' = [filter_lock EXCEPT !.r = @ \ {Reader}]
    /\ UNCHANGED <<supVars, srcVars, pipeVars, subVars, colVars, parseVars,
                   macVars, queue_lock, pid_lock>>

\* Capture thread: pid_clone.lock() after the spawn.
SetPidLock(i) ==
    /\ sources[i].cap = "setpid"
    /\ pid_lock[i] = "none"
    /\ pid_lock' = [pid_lock EXCEPT ![i] = Cap]
    /\ sources' = [sources EXCEPT ![i].cap = "setpid_held"]
    /\ UNCHANGED <<nlines, supVars, pipeVars, subVars, colVars, parseVars,
                   macVars, filter_lock, queue_lock>>

\* *pid_lock = Some(child.id()), and the guard is dropped.
SetPidRelease(i) ==
    /\ sources[i].cap = "setpid_held"
    /\ pid_lock' = [pid_lock EXCEPT ![i] = "none"]
    /\ sources' = [sources EXCEPT ![i].cap = "read", ![i].child_pid = TRUE]
    /\ UNCHANGED <<nlines, supVars, pipeVars, subVars, colVars, parseVars,
                   macVars, filter_lock, queue_lock>>

\* Capture thread: a line was read, q_clone.lock().
PushLock(i) ==
    /\ sources[i].cap = "read"
    /\ sources[i].proc = "running"
    /\ queue_lock[i] = "none"
    /\ queue_lock' = [queue_lock EXCEPT ![i] = Cap]
    /\ sources' = [sources EXCEPT ![i].cap = "push_held"]
    /\ UNCHANGED <<nlines, supVars, pipeVars, subVars, colVars, parseVars,
                   macVars, filter_lock, pid_lock>>

\* push_back(..), and the guard is dropped at the end of the statement.
PushRelease(i) ==
    /\ sources[i].cap = "push_held"
    /\ queue_lock' = [queue_lock EXCEPT ![i] = "none"]
    /\ sources' = [sources EXCEPT ![i].cap = "read"]
    /\ UNCHANGED <<nlines, supVars, pipeVars, subVars, colVars, parseVars,
                   macVars, filter_lock, pid_lock>>

\* Capture thread: stdout ended, pid_clone.lock().
ClearPidLock(i) ==
    /\ sources[i].cap = "read"
    /\ sources[i].proc = "dead"
    /\ pid_lock[i] = "none"
    /\ pid_lock' = [pid_lock EXCEPT ![i] = Cap]
    /\ sources' = [sources EXCEPT ![i].cap = "clear_held"]
    /\ UNCHANGED <<nlines, supVars, pipeVars, subVars, colVars, parseVars,
                   macVars, filter_lock, queue_lock>>

\* *pid_lock = None, and the thread ends: the guard is dropped.
ClearPidRelease(i) ==
    /\ sources[i].cap = "clear_held"
    /\ pid_lock' = [pid_lock EXCEPT ![i] = "none"]
    /\ sources' = [sources EXCEPT ![i].cap = "exited",
                                  ![i].child_pid = FALSE]
    /\ UNCHANGED <<nlines, supVars, pipeVars, subVars, colVars, parseVars,
                   macVars, filter_lock, queue_lock>>

\* Collector thread in receive(): self.queue.lock().
PollLock(i) ==
    /\ i \in DOMAIN run
    /\ run[i] = "running"
    /\ queue_lock[i] = "none"
    /\ queue_lock' = [queue_lock EXCEPT ![i] = Col]
    /\ UNCHANGED <<supVars, srcVars, pipeVars, subVars, colVars, parseVars,
                   macVars, filter_lock, pid_lock>>

\* pop_front() found nothing: drop(q), then the sleep.
PollRelease(i) ==
    /\ queue_lock[i] = Col
    /\ queue_lock' = [queue_lock EXCEPT ![i] = "none"]
    /\ UNCHANGED <<supVars, srcVars, pipeVars, subVars, colVars, parseVars,
                   macVars, filter_lock, pid_lock>>

\* The program on the tail-based source, its locks shown. The value of a
\* payload decides nothing about the locks: every request stores the same;
\* the subprocess is spawned and runs until it is killed.
LockInit == InitFor({"linux"}, Handlers, {})

LockNext ==
    \/ \E t \in Handlers : WriteFilter(t, 1)
    \/ \E t \in Threads : WriteFilterRelease(t)
    \/ \E t \in Threads : TakeLock(t)
    \/ \E t \in Threads : TakeNoneRelease(t)
    \/ \E t \in Threads : StopLock(t)
    \/ \E t \in Threads : StopRelease(t)
    \/ \E t \in Threads : GraceRelease(t)
    \/ \E t \in Threads : ReadFilter(t)
    \/ \E t \in Threads : ReadFilterRelease(t)
    \/ \E t \in Threads : ConstructLocks(t)
    \/ \E t \in Threads : RecordLock(t)
    \/ \E t \in Threads : RecordRelease(t)
    \/ \E t \in Threads : SpawnPipeline(t)
    \/ GetConfig
    \/ GetConfigRelease
    \/ \E i \in SrcIds : SpawnOk(i)
    \/ \E i \in SrcIds : SetPidLock(i)
    \/ \E i \in SrcIds : SetPidRelease(i)
    \/ \E i \in SrcIds : PushLock(i)
    \/ \E i \in SrcIds : PushRelease(i)
    \/ \E i \in SrcIds : ClearPidLock(i)
    \/ \E i \in SrcIds : ClearPidRelease(i)
    \/ \E i \in SrcIds : PollLock(i)
    \/ \E i \in SrcIds : PollRelease(i)

LockSpec == LockInit /\ [][LockNext]_vars

\* The steps of a thread in update_config / start_collector.
SupervisorStep(t) ==
    \/ WriteFilterRelease(t) \/ TakeLock(t) \/ TakeNoneRelease(t)
    \/ StopLock(t) \/ StopRelease(t) \/ GraceRelease(t)
    \/ ReadFilter(t) \/ ReadFilterRelease(t) \/ ConstructLocks(t)
    \/ RecordLock(t) \/ RecordRelease(t) \/ SpawnPipeline(t)

\* The steps of a capture thread that do not wait for a line.
CaptureStep(i) ==
    \/ SpawnOk(i) \/ SetPidLock(i) \/ SetPidRelease(i) \/ PushRelease(i)
    \/ ClearPidLock(i) \/ ClearPidRelease(i)

\* Every thread that can run does run; requests and lines come as they
\* please.
LockFairness ==
    /\ \A t \in Threads : WF_vars(SupervisorStep(t))
    /\ WF_vars(GetConfigRelease)
    /\ \A i \in AllSrcIds :
          /\ WF_vars(i \in SrcIds /\ CaptureStep(i))
          /\ WF_vars(i \in SrcIds /\ (PollLock(i) \/ PollRelease(i)))

LockLive == LockSpec /\ LockFairness

\* MacLogSource::new(config) has returned for a configuration a client
\* stored; its capture thread starts.
PredInit ==
    /\ platform = "macos"
    /\ filter \in FilterConfigs
    /\ source_arc = 0
    /\ arc_lock = "none"
    /\ pc = [t \in Threads |-> IF t = "main" THEN "stop0" ELSE "off"]
    /\ config = [t \in Threads |-> filter]
    /\ source = [t \in Threads |-> 0]
    /\ resp = [t \in Handlers |-> "none"]
    /\ sources = <<NewSource(filter)>>
    /\ nlines = 0
    /\ handoff = <<>>
    /\ published = <<>>
    /\ ring = [k \in 0..(Capacity - 1) |-> [pos |-> -1, val |-> NoEvent]]
    /\ tail = 0
    /\ subs = [u \in Subs |-> [st |-> "off", next |-> 0, got |-> <<>>, from |-> 0]]
    /\ run = <<>>
    /\ rx = <<>>
    /\ raw = NoRaw
    /\ iter = "off"
    /\ out = <<>>
    /\ cmd = NoCommand
    /\ filter_lock = Unlocked
    /\ queue_lock = <<>>
    /\ pid_lock = <<>>

PredNext ==
    \/ \E i \in SrcIds : BuildCommand(i)
    \/ \E i \in SrcIds : MacSpawn(i)
    \/ \E i \in SrcIds : SetPid(i)
    \/ \E t \in Threads, i \in SrcIds : StopCall(t, i)

PredSpec == PredInit /\ [][PredNext]_vars

\* Every thread that runs start_collector keeps running.
SupervisorFairness ==
    \A t \in Threads :
        WF_vars(\/ StopExisting(t) \/ NoExisting(t) \/ GraceOver(t)
                \/ ReadConfig(t) \/ ConstructOk(t)
                \/ RecordSource(t) \/ SpawnPipeline(t))

\* A Reconfigure over a running pipeline with every thread of the program
\* scheduled fairly.
RecFair == RecLive /\ CaptureFairness /\ SupervisorFairness

----------------------------------------------------------------------------
(* Reconfiguration Supervisor: claims *)

\* A source is live from its construction until stop() is invoked on it.
Live == {i \in SrcIds : ~sources[i].stopCalled}

\* The threads that have begun a Reconfigure and not finished it.
InFlight == {t \in Threads : pc[t] \in {"sleep", "readcfg", "construct", "record", "spawn"}}

\* The sources whose subprocess or subscription could not be started.
StartFailed == {i \in SrcIds : sources[i].cap \in {"panicked", "unsubscribed"}}

\* C1: at most one Audit Source is active at any time: at every moment all
\* the sources constructed so far, but at most one, have had stop() invoked.
AtMostOneActiveSource == Cardinality(Live) <= 1

\* C2: only one Reconfigure is in flight at a time: no two threads are
\* between the first and the last step of start_collector together.
OneReconfigureInFlight == Cardinality(InFlight) <= 1

\* C9: a thread whose source construction failed leaves the slot empty, has
\* no source, Collector or hand-off queue of its own, and no stopped source
\* is back in the slot.
FailedConstructionStaysIdle ==
    \A t \in Threads :
        pc[t] = "failed" =>
            /\ source_arc = 0
            /\ source[t] = 0
            /\ DOMAIN handoff = {}
            /\ arc_lock # t

\* C9 witness: a configuration replacement ended by a construction failure.
FailedReconfigureReached ==
    \E t \in Handlers : pc[t] = "failed" /\ filter # DefaultConfig

\* C10: a source whose subprocess or subscription could not be started is
\* not the active source and has no Collector bound to it.
FailedStartNeverActive ==
    \A i \in StartFailed : source_arc # i /\ i \notin DOMAIN handoff

\* C11: a configuration replacement whose Reconfigure failed is answered as
\* a failed update, not with the answer of a successful one.
FailedReconfigureReportedAsFailure ==
    \A t \in Handlers : pc[t] = "failed" => resp[t] # "Config updated"

----------------------------------------------------------------------------
(* Pipeline and fan-out: claims *)

\* The events a relay published since u attached.
PublishedSince(u) == SubSeq(published, subs[u].from + 1, Len(published))

\* The events the sink retains for u, from its cursor to the tail.
Pending(u) ==
    [k \in 1..(tail - subs[u].next) |-> ring[(subs[u].next + k - 1) % Capacity].val]

\* The events of source i in q keep the order in which i queued its records.
Ordered(q, i) ==
    \A a, b \in DOMAIN q :
        (a < b /\ q[a].src = i /\ q[b].src = i) => q[a].n < q[b].n

\* C3: no step of start_collector or update_config changes the broadcast
\* sink or a subscriber, and whatever a relay (of the old or of the new
\* source) publishes while a subscriber is attached is stored in the sink at
\* or after that subscriber's cursor.
ReconfigureKeepsSubscribers ==
    /\ [][pc' # pc => (ring' = ring /\ tail' = tail /\ subs' = subs)]_vars
    /\ [][\A u \in Subs :
            (subs[u].st = "attached" /\ published' # published) =>
                /\ subs'[u] = subs[u]
                /\ subs[u].next <= tail
                /\ tail' = tail + 1
                /\ ring'[tail % Capacity] =
                       [pos |-> tail, val |-> published'[Len(published')]]]_vars

\* C3 witness: a subscriber that received an event of the first source is
\* still attached after the Reconfigure and has received an event of the
\* source that Reconfigure constructed.
SubscriberSurvivedReconfigure ==
    \E u \in Subs :
        /\ subs[u].st = "attached"
        /\ pc["h1"] = "done"
        /\ \E a, b \in DOMAIN subs[u].got :
              /\ a < b
              /\ subs[u].got[a].src = source["main"]
              /\ subs[u].got[b].src = source["h1"]

\* C4: a subscription stream ends only when the subscriber disconnects.
StreamEndsOnlyOnDisconnect == \A u \in Subs : subs[u].st # "ended"

\* C6: what a subscriber has received is a prefix of what was published
\* since it attached, and for an attached subscriber not more than the
\* retention capacity behind, the events received followed by the events
\* retained for it are exactly the events published since it attached.
ReceivesExactlyPublishedSinceAttach ==
    \A u \in Subs :
        /\ subs[u].st \in {"attached", "gone", "ended"} =>
              /\ Len(subs[u].got) <= Len(PublishedSince(u))
              /\ subs[u].got = SubSeq(PublishedSince(u), 1, Len(subs[u].got))
        /\ (subs[u].st = "attached" /\ tail - subs[u].next <= Capacity) =>
              subs[u].got \o Pending(u) = PublishedSince(u)

\* C6 witness: a subscriber that attached after events had been published
\* to an earlier subscriber has received an event, and none of the earlier.
LateSubscriberReceived ==
    \E u \in Subs :
        /\ subs[u].st = "attached"
        /\ subs[u].from > 0
        /\ subs[u].next > Len(subs[u].got)
        /\ subs[u].got # <<>>
        /\ subs[u].got = PublishedSince(u)

\* C7: within one source the order of its records is kept by the queue, the
\* Collector's forwarding, the relay's publishing and every subscriber.
OrderPreservedPerSource ==
    \A i \in DOMAIN handoff :
        /\ Ordered(published \o handoff[i] \o sources[i].queue, i)
        /\ \A u \in Subs : Ordered(subs[u].got, i)

\* C7 witness: a subscriber received two events of one source after that
\* source had two records queued together.
TwoEventsOfOneSourceReceived ==
    \E u \in Subs : \E a, b \in DOMAIN subs[u].got :
        /\ a < b
        /\ subs[u].got[a].src = subs[u].got[b].src
        /\ subs[u].got[a].n < subs[u].got[b].n

\* The events the sources of one run can produce.
Events == [src : AllSrcIds, n : 1..MaxLines]

InHandoff(e) ==
    /\ e.src \in DOMAIN handoff
    /\ \E k \in DOMAIN handoff[e.src] : handoff[e.src][k] = e

Published(e) == \E k \in DOMAIN published : published[k] = e

\* A non-empty record of a source on which stop() was invoked is still in
\* that source's queue.
QueuedAtStopped(e) ==
    /\ e.src \in SrcIds
    /\ sources[e.src].stopCalled
    /\ \E k \in DOMAIN sources[e.src].queue :
          sources[e.src].queue[k] = [src |-> e.src, n |-> e.n, len |-> 1]

\* C5: publication never stalls: a Collector with a record to pull and a
\* relay with an event to publish can always take their step, whatever the
\* subscribers do, and every event placed in a hand-off queue is eventually
\* published by its relay.
NoBackpressureStall ==
    /\ [](\A i \in DOMAIN handoff :
            /\ sources[i].queue # <<>> => ENABLED Collect(i)
            /\ handoff[i] # <<>> => ENABLED Relay(i))
    /\ \A e \in Events : InHandoff(e) ~> Published(e)

\* C5 witness: publication went on while an attached subscriber was more
\* than the retention capacity behind.
PublishedPastSlowSubscriber ==
    \E u \in Subs :
        /\ subs[u].st = "attached"
        /\ tail - subs[u].next > Capacity
        /\ Len(published) > Capacity

\* C8: every non-empty record that is in the queue of a source when or after
\* Reconfigure stopped that source is eventually published.
NoEventLostAcrossReconfigure ==
    \A e \in Events : QueuedAtStopped(e) ~> Published(e)

\* C8 witness: a Reconfigure stopped a source while a record that its
\* Collector had not pulled was in its queue, unpublished.
UnpulledRecordAtStop ==
    \E e \in Events :
        /\ QueuedAtStopped(e)
        /\ ~Published(e)
        /\ pc["h1"] \in {"sleep", "readcfg", "construct", "record", "spawn", "done"}

----------------------------------------------------------------------------
(* Collector loop: claims *)

\* C13: Collector::run never returns an error, it has returned only where
\* the receiving side of its sink is gone, and the step in which it returns
\* is one in which it pulled a non-empty record that it could not send.
RunReturnsOnlyOnClosedSink ==
    /\ [](\A i \in DOMAIN run :
            /\ run[i] \in {"running", "ok"}
            /\ run[i] = "ok" => ~rx[i])
    /\ [][\A i \in DOMAIN run :
            (run[i] = "running" /\ run'[i] # "running") =>
                /\ run'[i] = "ok"
                /\ ~rx[i]
                /\ sources[i].queue # <<>>
                /\ Head(sources[i].queue).len # 0]_vars

\* C13 witness: run returned Ok on a closed sink while its source still
\* held records, after the harness had received an event from it.
RunReturnedOk ==
    \E i \in DOMAIN run :
        /\ run[i] = "ok"
        /\ ~rx[i]
        /\ sources[i].queue # <<>>
        /\ published # <<>>

\* C14: once the receiving side of the hand-off queue is dropped, the
\* Collector loop eventually ends.
ClosedSinkEndsCollector ==
    \A i \in AllSrcIds :
        (i \in DOMAIN rx /\ ~rx[i]) ~> (i \in DOMAIN run /\ run[i] # "running")

----------------------------------------------------------------------------
(* parse_event: claims *)

\* The text of the record under inspection and what it is made of.
Text == from_utf8_lossy(raw)

Toks == split_whitespace(Text)

BraceFirst == starts_with(trim(Text), "{")

\* The record decodes as the structured log schema.
Structured == BraceFirst /\ from_str(Text) # <<>>

\* The record matches the legacy grammar and is not a structured record.
LegacyGrammar ==
    /\ contains(Text, TypeMarker)
    /\ contains(Text, AuditMarker)
    /\ ~Structured

\* The key and the value of a token with a '=': the text before and after
\* its first '='.
KeyOf(tok) == SubSeq(tok, 1, find(tok, "=") - 1)

ValOf(tok) == SubSeq(tok, find(tok, "=") + 1, Len(tok))

\* The positions in ts of the key=value tokens, and of those with the key k.
Pairs(ts) == {n \in DOMAIN ts : find(ts[n], "=") # 0}

WithKey(ts, k) == {n \in Pairs(ts) : KeyOf(ts[n]) = k}

Last(S) == CHOOSE n \in S : \A m \in S : m <= n

\* The number formed by the decimal digits of the value of a token.
DigitsOf(tok) == Decimal(SelectSeq(ValOf(tok), is_digit))

\* SERIAL of a token: the text between the first ':' of its value and the
\* first ')' after it, as an unsigned 32-bit number; 0 when there is no
\* such span or it is not such a number.
SerialOf(tok) ==
    LET v == ValOf(tok)
        c == find(v, ":")
        rest == SubSeq(v, c + 1, Len(v))
        p == find(rest, ")")
        span == SubSeq(rest, 1, p - 1)
    IN  IF c = 0 \/ p = 0 \/ span = <<>>
           \/ (\E k \in DOMAIN span : ~is_digit(span[k]))
           \/ Exceeds(span, U32Max)
        THEN 0
        ELSE Decimal(span)

\* The positions in ts of the msg=audit(EPOCH:SERIAL) tokens.
AuditToks(ts) ==
    {n \in WithKey(ts, KeyMsg) :
        /\ contains(ts[n], AuditMarker \o <<"(">>)
        /\ find(ValOf(ts[n]), ":") # 0
        /\ find(ValOf(ts[n]), ")") > find(ValOf(ts[n]), ":")}

\* C12: for a record that begins with '{', does not decode as the
\* structured schema and is not legacy-grammar, the Collector's iteration
\* sends no event.
MalformedRecordDropped ==
    (iter # "received" /\ BraceFirst /\ ~Structured /\ ~LegacyGrammar)
        => out = <<>>

\* C15: for a legacy-grammar record with type=N tokens, record_type is the
\* number formed by the decimal digits of N of one of them, whatever its
\* size; with no type token it is 0.
RecordTypeIsDigitsOfType ==
    (iter = "sent" /\ LegacyGrammar) =>
        LET ts == Toks
            ty == WithKey(ts, KeyType)
        IN  IF ty = {}
            THEN out[1].record_type = 0
            ELSE \E n \in ty : out[1].record_type = DigitsOf(ts[n])

\* C15, amended: for a legacy-grammar record, record_type is decided by the
\* last type=N token: the number formed by the decimal digits of N when it
\* is at most 65535, and 0 when it is larger; with no digits in N, or no
\* type token, it is 0.
RecordTypeIsLastTypeIn16Bits ==
    (iter = "sent" /\ LegacyGrammar) =>
        LET ts == Toks
            ty == WithKey(ts, KeyType)
            d == DigitsOf(ts[Last(ty)])
        IN  IF ty = {}
            THEN out[1].record_type = 0
            ELSE out[1].record_type = IF d <= 65535 THEN d ELSE 0

\* C15 witness: a legacy-grammar record was parsed whose last type token
\* carries a number above 65535 and follows another type token.
WideTypeAfterTypeParsed ==
    /\ iter = "sent"
    /\ LegacyGrammar
    /\ LET ts == Toks
           ty == WithKey(ts, KeyType)
       IN  /\ Cardinality(ty) > 1
           /\ DigitsOf(ts[Last(ty)]) > 65535
    /\ out[1].record_type = 0

\* C16: for a legacy-grammar record with a msg=audit(EPOCH:SERIAL) token,
\* sequence is the SERIAL of such a token, also when further msg= tokens
\* follow it.
SequenceIsAuditSerial ==
    (iter = "sent" /\ LegacyGrammar) =>
        LET ts == Toks
            au == AuditToks(ts)
        IN  au # {} => \E n \in au : out[1].sequence = SerialOf(ts[n])

\* C17: for a legacy-grammar record, every key=value token is an entry
\* key -> value of the field mapping.
EveryTokenIsAField ==
    (iter = "sent" /\ LegacyGrammar) =>
        LET ts == Toks
        IN  \A n \in Pairs(ts) :
                /\ KeyOf(ts[n]) \in DOMAIN out[1].fields
                /\ out[1].fields[KeyOf(ts[n])] = ValOf(ts[n])

\* C17, amended: for a legacy-grammar record, the keys of the field mapping
\* are the keys of its key=value tokens, and each key maps to the value of
\* the last token with that key.
LastTokenOfEachKeyIsAField ==
    (iter = "sent" /\ LegacyGrammar) =>
        LET ts == Toks
        IN  /\ DOMAIN out[1].fields = {KeyOf(ts[n]) : n \in Pairs(ts)}
            /\ \A n \in Pairs(ts) :
                  out[1].fields[KeyOf(ts[n])] =
                      ValOf(ts[Last(WithKey(ts, KeyOf(ts[n])))])

\* C17 witness: a legacy-grammar record with two tokens of one key and
\* different values was parsed.
SharedKeyParsed ==
    /\ iter = "sent"
    /\ LegacyGrammar
    /\ LET ts == Toks
       IN  \E m, n \in Pairs(ts) :
              /\ m < n
              /\ KeyOf(ts[m]) = KeyOf(ts[n])
              /\ ValOf(ts[m]) # ValOf(ts[n])

\* C18: for a record whose trimmed text does not start with '{' and that
\* does not match the legacy grammar, the event has record_type 1,
\* sequence 0 and the single field message -> the whole text, untrimmed.
FreeTextIsGenericMessage ==
    (iter = "sent" /\ ~BraceFirst /\ ~LegacyGrammar) =>
        out = <<[record_type |-> 1, sequence |-> 0,
                 fields |-> (KeyMessage :> Text)]>>

\* C18 witness: free text with whitespace in front was parsed.
PaddedFreeTextParsed ==
    /\ iter = "sent"
    /\ ~BraceFirst
    /\ ~LegacyGrammar
    /\ trim(Text) # Text
    /\ trim(Text) # <<>>

\* The fields of MacLogEntry that are present in e, by canonical key.
Present(e) ==
    {k \in {KeyMessage, KeyProcess, KeyPid, KeyThreadId, KeySubsystem,
            KeyCategory, KeyLibrary} :
        \/ k = KeyMessage /\ e.event_message # <<>>
        \/ k \in {KeyProcess, KeyLibrary} /\ e.process_image_path # <<>>
        \/ k = KeyPid /\ e.process_id # <<>>
        \/ k = KeyThreadId /\ e.thread_id # <<>>
        \/ k = KeySubsystem /\ e.subsystem # <<>>
        \/ k = KeyCategory /\ e.category # <<>>}

\* C19: for a record that decodes as the structured schema the event has
\* record_type 1 and sequence 0, its mapping has exactly the canonical keys
\* of the fields present, each with that field's value (the image path
\* under process and library, the ids in decimal), and so nothing of the
\* legacy or free-text paths.
StructuredRecordIsCanonical ==
    (iter = "sent" /\ Structured) =>
        LET e == from_str(Text)[1]
            f == out[1].fields
        IN  /\ out[1].record_type = 1
            /\ out[1].sequence = 0
            /\ DOMAIN f = Present(e)
            /\ KeyMessage \in DOMAIN f => f[KeyMessage] = e.event_message[1]
            /\ KeyProcess \in DOMAIN f =>
                  /\ f[KeyProcess] = e.process_image_path[1]
                  /\ f[KeyLibrary] = e.process_image_path[1]
            /\ KeyPid \in DOMAIN f => Decimal(f[KeyPid]) = e.process_id[1]
            /\ KeyThreadId \in DOMAIN f =>
                  Decimal(f[KeyThreadId]) = e.thread_id[1]
            /\ KeySubsystem \in DOMAIN f => f[KeySubsystem] = e.subsystem[1]
            /\ KeyCategory \in DOMAIN f => f[KeyCategory] = e.category[1]

\* C19 witness: a structured record was parsed whose message reads like a
\* legacy audit line, with its image path present and its category absent.
StructuredLegacyLookalikeParsed ==
    /\ iter = "sent"
    /\ Structured
    /\ contains(Text, TypeMarker)
    /\ contains(Text, AuditMarker)
    /\ from_str(Text)[1].process_image_path # <<>>
    /\ from_str(Text)[1].category = <<>>

----------------------------------------------------------------------------
(* stop(): claims *)

StopTerminatesSubprocess ==
    \A i \in AllSrcIds :
        (platform \in ProcessBacked /\ i \in SrcIds /\ sources[i].stopCalled)
            ~> (/\ i \in SrcIds
                /\ sources[i].proc # "running"
                /\ sources[i].cap \in {"exited", "panicked"})

----------------------------------------------------------------------------
(* Synthetic source: claims *)

\* Record n of source i (the n-th of its initial records and pushes, in
\* that order) is in its queue.
Queued(i, n) == \E k \in DOMAIN sources[i].queue : sources[i].queue[k].n = n

\* C22: the queue of the synthetic source always holds its latest records
\* in the order of the initial sequence followed by the pushes; a receive()
\* that returns takes the oldest of them, and that is the record the
\* Collector goes on with; while the queue is empty no receive() returns,
\* with a record or with an error; and a record in the queue of a source
\* whose Collector is in its loop is eventually returned.
MockIsFifo ==
    /\ [](\A i \in SrcIds :
            \A k \in DOMAIN sources[i].queue :
                sources[i].queue[k].n
                    = sources[i].emitted - Len(sources[i].queue) + k)
    /\ [][\A i \in DOMAIN run :
            Len(sources'[i].queue) < Len(sources[i].queue) =>
                /\ sources'[i].queue = Tail(sources[i].queue)
                /\ (Head(sources[i].queue).len # 0 /\ rx[i]) =>
                      handoff'[i] =
                          Append(handoff[i], ParseEvent(Head(sources[i].queue)))]_vars
    /\ [][\A i \in DOMAIN run :
            sources[i].queue = <<>> =>
                /\ run'[i] = run[i]
                /\ Len(handoff'[i]) <= Len(handoff[i])]_vars
    /\ \A i \in AllSrcIds, n \in 1..MaxLines :
            (i \in DOMAIN run /\ run[i] = "running" /\ Queued(i, n))
                ~> (i \in DOMAIN run /\ (run[i] # "running" \/ ~Queued(i, n)))

\* C22 witness: receive() has returned every record, zero-length ones
\* among them, the harness has received two events in their order, and the
\* Collector waits on the empty queue.
MockExhausted ==
    \E i \in DOMAIN run :
        /\ run[i] = "running"
        /\ sources[i].queue = <<>>
        /\ sources[i].emitted = MaxLines
        /\ Len(published) = 2
        /\ published[1].n < published[2].n

----------------------------------------------------------------------------
(* Threads of a replaced pipeline *)

\* C23: the Collector started for a source eventually ends once that source
\* was replaced (stopped by a Reconfigure).
ReplacedCollectorTerminates ==
    \A i \in AllSrcIds :
        (i \in DOMAIN run /\ sources[i].stopCalled)
            ~> (i \in DOMAIN run /\ run[i] # "running")

----------------------------------------------------------------------------
(* Active source and stored configuration *)

\* C24: whenever no start_collector is in flight and a source is active,
\* that source was constructed from the stored Filter Configuration.
ActiveSourceBuiltFromStoredConfig ==
    (/\ \A t \in Threads : pc[t] \in {"idle", "done", "failed", "off"}
     /\ source_arc # 0)
        => sources[source_arc].cfg = filter

----------------------------------------------------------------------------
(* Predicate of the native-tool source *)

\* The fields of a Filter Configuration in the order of their clauses.
FieldOrder ==
    <<"process", "message", "subsystem", "pid", "thread_id", "category",
      "library">>

\* The clause that restricts field f to the text v.
ClauseOf(f, v) ==
    CASE f = "process"   -> FmtProcess \o v \o Quote
      [] f = "message"   -> FmtMessage \o v \o Quote
      [] f = "subsystem" -> FmtSubsystem \o v \o Quote
      [] f = "pid"       -> FmtPid \o v
      [] f = "thread_id" -> FmtThreadId \o v
      [] f = "category"  -> FmtCategory \o v \o Quote
      [] f = "library"   -> FmtLibrary \o v \o Quote

\* The fields of c that are present and non-empty, in clause order.
SetFields(c) ==
    LET IsSet(f) == c[f] # None /\ c[f][1] # <<>>
    IN  SelectSeq(FieldOrder, IsSet)

\* C26: the command a capture thread built has, after stream --style json,
\* no further argument when no field of its configuration is present and
\* non-empty, and else --predicate followed by the clauses of exactly the
\* present non-empty fields, one each, in the order process, message,
\* subsystem, pid, thread id, category, library, joined by " AND ".
PredicateHasOneClausePerSetField ==
    \A i \in DOMAIN cmd :
        LET fs == SetFields(sources[i].cfg)
            clauses == [k \in 1..Len(fs) |->
                           ClauseOf(fs[k], sources[i].cfg[fs[k]][1])]
        IN  /\ cmd[i].program = LogTool
            /\ SubSeq(cmd[i].args, 1, 3) = <<ArgStream, ArgStyle, ArgJson>>
            /\ IF fs = <<>>
               THEN Len(cmd[i].args) = 3
               ELSE /\ Len(cmd[i].args) = 5
                    /\ cmd[i].args[4] = ArgPredicate
                    /\ cmd[i].args[5] = JoinWith(clauses, AndSep)

\* C26 witness: a command was built and spawned for a configuration with
\* present, empty and absent fields, its predicate has two clauses.
PredicateBuiltFromMixedConfig ==
    /\ 1 \in DOMAIN cmd
    /\ sources[1].proc = "running"
    /\ sources[1].cfg.process = Some(ProcessValue)
    /\ sources[1].cfg.message = Some(<<>>)
    /\ sources[1].cfg.subsystem = None
    /\ sources[1].cfg.pid = None
    /\ sources[1].cfg.thread_id = Some(<<>>)
    /\ sources[1].cfg.category = None
    /\ sources[1].cfg.library = Some(LibraryValue)
    /\ cmd[1].args[5] = FmtProcess \o ProcessValue \o Quote \o AndSep
                           \o FmtLibrary \o LibraryValue \o Quote

----------------------------------------------------------------------------
(* Locks *)

\* Where a thread of start_collector is not between two of its steps.
AtRest == {"idle", "done", "off"}

\* C25: every lock is free again and again, so whoever acquired it released
\* it (the filter lock by its writer and by each reader, the source_arc
\* lock, each source's queue lock and child_pid lock), and no thread stays
\* for ever where it waits for a lock: every request that began ends, and
\* every capture thread that has to set or clear its pid gets to do it.
LocksAreReleased ==
    /\ []<>(arc_lock = "none")
    /\ []<>(filter_lock.w = "none")
    /\ \A t \in Threads \cup {Reader} : []<>(t \notin filter_lock.r)
    /\ \A i \in AllSrcIds :
          /\ []<>(i \in SrcIds => queue_lock[i] = "none")
          /\ []<>(i \in SrcIds => pid_lock[i] = "none")
          /\ []<>(i \in SrcIds =>
                     /\ sources[i].cap # "setpid"
                     /\ ~(sources[i].cap = "read" /\ sources[i].proc = "dead"))
    /\ \A t \in Threads : []<>(pc[t] \in AtRest)

\* C25 witness: a handler holds the source_arc write guard and waits in
\* stop() for the child_pid lock that the capture thread holds, while the
\* other handler waits for the source_arc lock, the Collector holds the
\* queue lock and GET /api/config holds the filter lock for reading.
NestedLockWait ==
    /\ arc_lock = "h1"
    /\ pc["h1"] = "taken"
    /\ source_arc # 0
    /\ pid_lock[source_arc] = Cap
    /\ pc["h2"] \in {"take", "record"}
    /\ queue_lock[source_arc] = Col
    /\ Reader \in filter_lock.r

====
